---- MODULE Spec2Model ----
(***************************************************************************)
(* Model of legal_agent_team.py: the Streamlit script main(), run top to   *)
(* bottom on every user interaction, with its helpers init_qdrant and      *)
(* process_document, against a Qdrant server shared by the browser         *)
(* sessions.  Each session keeps its own st.session_state; the server's    *)
(* collection is the only state the sessions share.                        *)
(***************************************************************************)
EXTENDS Integers, Sequences, FiniteSets, TLC

\* ---------------------------------------------------------------- bounds
MaxKeyLen == 9      \* longest Qdrant API key a user types
MaxMsgs == 2        \* longest message sequence of an agent response

\* ------------------------------------------------------ program constants
PrefixLen == 8      \* qdrant_api_key[:8] in the debug section

\* ----------------------------------------------------------------- values
\* Every value is a tuple of strings and numbers, so that None compares
\* with any of them.
None == <<"None">>
Empty == <<>>                       \* the empty string ""
Truthy(v) == v # None /\ v # Empty  \* Python truthiness of an optional string/object

Alphabet == <<"a", "b", "c", "d", "e", "f", "g", "h", "i", "j", "k", "l">>
Min(a, b) == IF a <= b THEN a ELSE b
Slice(str, n) == SubSeq(str, 1, Min(n, Len(str)))          \* Python str[:n]

Sessions == {"s1", "s2"}
COLLECTION == "legal_knowledge"
DEFAULT_URL == <<"https://34539fef.cloud.qdrant.io:6333">>

OpenAIKeys == {<<"s", "k">>}
QdrantKeys == {SubSeq(Alphabet, 1, n) : n \in PrefixLen..MaxKeyLen}
QdrantUrls == {DEFAULT_URL}
DocIds == {"contract.pdf"}           \* the names of the documents a user uploads
\* st.file_uploader(type=['pdf']) admits any file whose name ends in .pdf;
\* its bytes may or may not be a readable PDF.
Files == {<<"file", d, v>> : d \in DocIds, v \in {"pdf", "garbage"}}
\* Two of the five analysis types of lines 268-274: a predefined one
\* (the four predefined types differ only in their texts) and the custom one.
AnalysisTypes == {"Contract Review", "Custom Query"}
UserQueries == {Empty, <<"q">>}

\* An agent response: content (possibly empty) and a message sequence.
MsgKinds == {[role |-> r, content |-> c] : r \in {"user", "assistant"},
                                            c \in {"", "text"}}
MsgSeqs == UNION {[1..n -> MsgKinds] : n \in 0..MaxMsgs}
Responses == {[content |-> c, messages |-> m] : c \in {Empty, <<"content">>},
                                                 m \in MsgSeqs}

VARIABLES
    openai_api_key, qdrant_api_key, qdrant_url,   \* st.session_state, per session
    vector_db, legal_team, knowledge_base,
    collections, points,      \* the Qdrant server: collection names, legal_knowledge's documents
    pc,                       \* position of each session's script run
    collection_names,         \* init_qdrant's local: the names it listed
    uploaded_file, analysis_type, user_query, response,   \* main's locals
    temp_dir,                 \* process_document's temporary directory: the files in it
    screen,                   \* elements rendered by the current run, in order
    trace                     \* external calls and assignments of the current run, in order

vars == <<openai_api_key, qdrant_api_key, qdrant_url, vector_db, legal_team,
          knowledge_base, collections, points, pc, collection_names,
          uploaded_file, analysis_type, user_query, response, temp_dir, screen,
          trace>>

session_vars == <<openai_api_key, qdrant_api_key, qdrant_url, vector_db,
                  legal_team, knowledge_base>>
server_vars == <<collections, points>>
local_vars == <<collection_names, uploaded_file, analysis_type, user_query,
                response, temp_dir>>

\* ------------------------------------------------------------- rendering
El(kind, text) == [kind |-> kind, text |-> text]
Show(s, els) == screen' = [screen EXCEPT ![s] = @ \o els]
Did(s, evs) == trace' = [trace EXCEPT ![s] = @ \o evs]
Goto(s, l) == pc' = [pc EXCEPT ![s] = l]
\* trace entries: <<function, event>>
IQ(e) == <<"init_qdrant", e>>
PD(e) == <<"process_document", e>>
MAIN(e) == <<"main", e>>

\* init_session_state: every field None on the session's first run.
init_session_state ==
    /\ openai_api_key = [s \in Sessions |-> None]
    /\ qdrant_api_key = [s \in Sessions |-> None]
    /\ qdrant_url = [s \in Sessions |-> None]
    /\ vector_db = [s \in Sessions |-> None]
    /\ legal_team = [s \in Sessions |-> None]
    /\ knowledge_base = [s \in Sessions |-> None]

Init ==
    /\ init_session_state
    \* the server may already hold the collection (testqdrant.py creates it)
    /\ \/ collections = {} /\ points = {}
       \/ collections = {COLLECTION} /\ points \in SUBSET DocIds
    /\ pc = [s \in Sessions |-> "idle"]
    /\ collection_names = [s \in Sessions |-> {}]
    /\ uploaded_file = [s \in Sessions |-> None]
    /\ analysis_type = [s \in Sessions |-> "unset"]
    /\ user_query = [s \in Sessions |-> None]
    /\ response = [s \in Sessions |-> None]
    /\ temp_dir = [s \in Sessions |-> {}]
    /\ screen = [s \in Sessions |-> <<>>]
    /\ trace = [s \in Sessions |-> <<>>]

\* --------------------------------------------------------------- sidebar
\* (mutant) an emptied field erases the stored value
StoredOrErased(old, typed) == IF Truthy(typed) THEN typed ELSE None

\* A text input returns what the field holds: the stored value, a newly
\* typed one, or "" when the user empties it.  Only a truthy value is stored.
Stored(old, typed) == IF Truthy(typed) THEN typed ELSE old

\* main, lines 139-172: a new script run starts; the three text inputs.
SidebarWith(s, okeys, qkeys, urls) ==
    /\ pc[s] = "idle"
    /\ \E openai_key \in okeys \cup {Empty}, qdrant_key \in qkeys \cup {Empty},
          url \in urls \cup {Empty} :
        /\ openai_api_key' = [openai_api_key EXCEPT ![s] = Stored(@, openai_key)]
        /\ qdrant_api_key' = [qdrant_api_key EXCEPT ![s] = Stored(@, qdrant_key)]
        /\ qdrant_url' = [qdrant_url EXCEPT ![s] = Stored(@, url)]
    /\ collection_names' = [collection_names EXCEPT ![s] = {}]
    /\ uploaded_file' = [uploaded_file EXCEPT ![s] = None]
    /\ analysis_type' = [analysis_type EXCEPT ![s] = "unset"]
    /\ user_query' = [user_query EXCEPT ![s] = None]
    /\ response' = [response EXCEPT ![s] = None]
    /\ screen' = [screen EXCEPT ![s] = <<>>]
    /\ trace' = [trace EXCEPT ![s] = <<>>]
    /\ Goto(s, "qdrant_gate")
    /\ UNCHANGED <<vector_db, legal_team, knowledge_base, server_vars, temp_dir>>

Sidebar(s) == SidebarWith(s, OpenAIKeys, QdrantKeys, QdrantUrls)

\* main, lines 174-177: init_qdrant is called when both Qdrant credentials
\* are set and no handle is stored (its own guards, lines 29-32, then pass).
QdrantGate(s) ==
    /\ pc[s] = "qdrant_gate"
    /\ IF Truthy(qdrant_api_key[s]) /\ Truthy(qdrant_url[s]) /\ ~Truthy(vector_db[s])
       THEN Goto(s, "iq_direct")
       ELSE Goto(s, "upload_gate")
    /\ UNCHANGED <<session_vars, server_vars, local_vars, screen, trace>>

\* init_qdrant, lines 79-87, and main's handler, lines 179-180: the error
\* is rendered, the exception re-raised and caught in main; vector_db
\* keeps its value.
IQErrors == <<El("error", <<"Qdrant connection failed">>),
             El("error", <<"Failed to connect to Qdrant">>)>>

\* init_qdrant, lines 34-47: the direct client's get_collections.
IQDirect(s) ==
    /\ pc[s] = "iq_direct"
    /\ \E ok \in BOOLEAN :
        IF ok
        THEN /\ Show(s, <<El("write", <<"Direct connection successful">>)>>)
             /\ Goto(s, "iq_list")
        ELSE /\ Show(s, IQErrors)
             /\ Goto(s, "upload_gate")
    /\ Did(s, <<IQ("get_collections")>>)
    /\ UNCHANGED <<session_vars, server_vars, local_vars>>

\* init_qdrant, lines 49-64: the wrapper's get_collections; the names listed.
IQList(s) ==
    /\ pc[s] = "iq_list"
    /\ \E ok \in BOOLEAN :
        IF ok
        THEN /\ collection_names' = [collection_names EXCEPT ![s] = collections]
             /\ Show(s, <<El("write", <<"Found collections">>)>>)
             /\ Goto(s, "iq_create")
        ELSE /\ UNCHANGED collection_names
             /\ Show(s, IQErrors)
             /\ Goto(s, "upload_gate")
    /\ Did(s, <<IQ("get_collections")>>)
    /\ UNCHANGED <<session_vars, server_vars, uploaded_file, analysis_type,
                   user_query, response, temp_dir>>

\* The server's answer to create_collection: a collection that exists is
\* left as it is and the request is answered "already exists".
ServerCreate(name) ==
    IF name \in collections
    THEN [answer |-> "already exists", collections |-> collections, points |-> points]
    ELSE [answer |-> "ok", collections |-> collections \cup {name}, points |-> {}]

\* (mutant) the collection is created without looking at the listing
AlwaysCreate(names) == TRUE

\* init_qdrant, line 66: create only when the name was not listed.
NeedsCreate(names) == COLLECTION \notin names

\* init_qdrant, lines 79-87 around line 68: every exception of the create
\* call, "already exists" included, takes the except branch.
CreateFails(answer) == answer # "ok"

\* init_qdrant, lines 66-77, and main, lines 177-178.
IQCreate(s) ==
    /\ pc[s] = "iq_create"
    /\ IF NeedsCreate(collection_names[s])
       THEN \E net \in BOOLEAN :
            LET r == ServerCreate(COLLECTION)
                answer == IF net THEN r.answer ELSE "unreachable" IN
            /\ Did(s, <<IQ("create_collection"), IQ(answer)>>)
            /\ collections' = IF net THEN r.collections ELSE collections
            /\ points' = IF net THEN r.points ELSE points
            /\ IF CreateFails(answer)
               THEN /\ Show(s, <<El("write", <<"Creating collection">>)>> \o IQErrors)
                    /\ UNCHANGED vector_db
               ELSE /\ Show(s, <<El("write", <<"Creating collection">>),
                                 El("write", <<"Collection created successfully">>),
                                 El("success", <<"Successfully connected to Qdrant">>)>>)
                    /\ vector_db' = [vector_db EXCEPT ![s] = <<"Qdrant">>]
       ELSE /\ Show(s, <<El("success", <<"Successfully connected to Qdrant">>)>>)
            /\ vector_db' = [vector_db EXCEPT ![s] = <<"Qdrant">>]
            /\ UNCHANGED <<server_vars, trace>>
    /\ Goto(s, "upload_gate")
    /\ UNCHANGED <<openai_api_key, qdrant_api_key, qdrant_url, legal_team,
                   knowledge_base, local_vars>>

\* ---------------------------------------------------------------- upload
\* (mutant) the upload and the analysis are offered without credentials
NoCredentialsCheck(s) == TRUE

\* main, lines 184-188 and 264-277: the uploader and the analysis selector
\* are rendered only when the OpenAI key and the handle are set.
CredentialsReady(s) == Truthy(openai_api_key[s]) /\ Truthy(vector_db[s])

UploadGateWith(s, files) ==
    /\ pc[s] = "upload_gate"
    /\ IF CredentialsReady(s)
       THEN /\ \E f \in files \cup {None} :
                /\ uploaded_file' = [uploaded_file EXCEPT ![s] = f]
                /\ Goto(s, IF Truthy(f) THEN "pd_test" ELSE "main_area")
            /\ \E a \in AnalysisTypes :
                analysis_type' = [analysis_type EXCEPT ![s] = a]
            /\ UNCHANGED screen
       ELSE /\ Show(s, <<El("warning", <<"Please configure all API credentials">>)>>)
            /\ Goto(s, "main_area")
            /\ UNCHANGED <<uploaded_file, analysis_type>>
    /\ UNCHANGED <<session_vars, server_vars, collection_names, user_query,
                   response, temp_dir, trace>>

UploadGate(s) == UploadGateWith(s, Files)

\* main, lines 261-262: any exception of process_document or of an Agent
\* constructor is rendered; the rest of the try block is skipped.
IngestError == <<El("error", <<"Error processing document">>)>>

\* process_document, lines 91-102: the key check, then the connection test.
PDTest(s) ==
    /\ pc[s] = "pd_test"
    /\ IF ~Truthy(openai_api_key[s])
       THEN /\ Did(s, <<PD("raise")>>)
            /\ Show(s, IngestError)
            /\ Goto(s, "main_area")
       ELSE \E ok \in BOOLEAN :
            IF ok
            THEN /\ Did(s, <<PD("get_collections")>>)
                 /\ Show(s, <<El("write", <<"Available collections">>)>>)
                 /\ Goto(s, "pd_stage")
            ELSE /\ Did(s, <<PD("get_collections"), PD("raise")>>)
                 /\ Show(s, IngestError)
                 /\ Goto(s, "main_area")
    /\ UNCHANGED <<session_vars, server_vars, local_vars>>

\* process_document, lines 104-110: the temporary directory and the staged upload.
PDStage(s) ==
    /\ pc[s] = "pd_stage"
    /\ temp_dir' = [temp_dir EXCEPT ![s] = {uploaded_file[s]}]
    /\ Show(s, <<El("write", <<"Saved uploaded file">>)>>)
    /\ Did(s, <<PD("mkdtemp")>>)
    /\ Goto(s, "pd_load")
    /\ UNCHANGED <<session_vars, server_vars, collection_names, uploaded_file,
                   analysis_type, user_query, response>>

\* knowledge_base.load(), line 130: the reader extracts the text first (a
\* file that is no PDF is rejected there), then chunks are embedded and
\* upserted, and either call may fail.
LoadOutcomes(f) == IF f[3] = "pdf" THEN {"ok", "load_error"} ELSE {"rejected"}

LoadCalls(outcome) ==
    CASE outcome = "ok" -> <<PD("extract"), PD("embed"), PD("upsert")>>
      [] outcome = "load_error" -> <<PD("extract"), PD("embed")>>
      [] OTHER -> <<PD("rejected")>>

\* (mutant) the directory is removed on the success path only
TempDirKeptOnError(outcome, files) == IF outcome = "ok" THEN {} ELSE files

\* with tempfile.TemporaryDirectory(), line 104: the directory is removed
\* when the block is left, by return or by exception.
TempDirAfter(outcome, files) == {}

\* (mutant) a failed ingestion is swallowed and the agents are built anyway
AfterIngestAlways(outcome) == "agents"

\* main, lines 190-192 and 261: only a returned knowledge base reaches the
\* agent construction.
AfterIngest(outcome) == IF outcome = "ok" THEN "agents" ELSE "main_area"

\* process_document, lines 112-137, and main, lines 191-192.
PDLoad(s) ==
    /\ pc[s] = "pd_load"
    /\ \E outcome \in LoadOutcomes(uploaded_file[s]) :
        LET doc == uploaded_file[s][2] IN
        /\ temp_dir' = [temp_dir EXCEPT ![s] = TempDirAfter(outcome, @)]
        /\ Goto(s, AfterIngest(outcome))
        /\ IF outcome = "ok"
           THEN /\ points' = points \cup {doc}
                /\ knowledge_base' = [knowledge_base EXCEPT ![s] = <<"kb", doc>>]
                /\ Did(s, LoadCalls(outcome) \o <<PD("return"), MAIN("set knowledge_base")>>)
                /\ Show(s, <<El("write", <<"Knowledge base loaded successfully">>)>>)
           ELSE /\ \E partial \in (IF outcome = "load_error" THEN BOOLEAN ELSE {FALSE}) :
                    points' = IF partial THEN points \cup {doc} ELSE points
                /\ UNCHANGED knowledge_base
                /\ Did(s, LoadCalls(outcome) \o <<PD("raise")>>)
                /\ Show(s, <<El("error", <<"Detailed error">>)>> \o IngestError)
    /\ UNCHANGED <<openai_api_key, qdrant_api_key, qdrant_url, vector_db, legal_team,
                   collections, collection_names, uploaded_file, analysis_type,
                   user_query, response>>

\* main, lines 195-259: the three agents, then the team lead; a constructor
\* that raises skips the rest.
NumAgents == 4
Agents(s) ==
    /\ pc[s] = "agents"
    /\ \E built \in 0..NumAgents :
        /\ Did(s, [i \in 1..built |-> MAIN("Agent")]
                  \o (IF built = NumAgents THEN <<MAIN("set legal_team")>>
                      ELSE <<MAIN("Agent raise")>>))
        /\ IF built = NumAgents
           THEN /\ legal_team' = [legal_team EXCEPT ![s] = <<"team">> \o Tail(knowledge_base[s])]
                /\ Show(s, <<El("success", <<"Document processed and team initialized">>)>>)
           ELSE /\ UNCHANGED legal_team
                /\ Show(s, IngestError)
    /\ Goto(s, "main_area")
    /\ UNCHANGED <<openai_api_key, qdrant_api_key, qdrant_url, vector_db,
                   knowledge_base, server_vars, local_vars>>

\* -------------------------------------------------------------- analysis
\* The text a result tab shows for a response, lines 374-379 (and 390-395,
\* 406-411): the content when it is truthy, otherwise every assistant
\* message with truthy content, in order.
RECURSIVE RenderMessages(_, _, _)
RenderMessages(tab, messages, i) ==
    IF i > Len(messages) THEN <<>>
    ELSE (IF messages[i].role = "assistant" /\ messages[i].content # ""
          THEN <<El("markdown", <<tab, "message", i>>)>> ELSE <<>>)
         \o RenderMessages(tab, messages, i + 1)

Render(tab, r) ==
    IF r.content # Empty THEN <<El("markdown", <<tab, "content">>)>>
    ELSE RenderMessages(tab, r.messages, 1)

Header(tab) == El("markdown", <<tab, "header">>)
AnalysisError == El("error", <<"Error during analysis">>)

\* (mutant) the error replaces what the run has rendered
ScreenOnlyError(shown, err) == <<err>>

\* main, lines 413-414: the error is appended below what the run has
\* rendered so far.
ScreenAfterError(shown, err) == Append(shown, err)

\* Only the run a button's click triggers sees that button as pressed.
Clicked(s, button) == \E i \in DOMAIN trace[s] : trace[s][i] = <<"main", "click", button>>

\* main, lines 279-345 and 415-416: the main content area up to the
\* Analyze button.
MainArea(s) ==
    /\ pc[s] = "main_area"
    /\ IF ~CredentialsReady(s)
       THEN /\ Show(s, <<El("info", <<"Please configure your API credentials">>)>>)
            /\ Goto(s, "debug")
            /\ UNCHANGED <<user_query, trace>>
       ELSE IF ~Truthy(uploaded_file[s])
       THEN /\ Show(s, <<El("info", <<"Please upload a legal document">>)>>)
            /\ Goto(s, "debug")
            /\ UNCHANGED <<user_query, trace>>
       ELSE IF Truthy(legal_team[s])
       THEN \E q \in (IF analysis_type[s] = "Custom Query" THEN UserQueries ELSE {None}),
               analyze \in BOOLEAN :
            /\ user_query' = [user_query EXCEPT ![s] = q]
            /\ IF ~analyze
               THEN /\ Show(s, <<El("header", <<analysis_type[s]>>)>>)
                    /\ Goto(s, "debug")
                    /\ UNCHANGED trace
               ELSE /\ Did(s, <<<<"main", "click", "Analyze">>>>)
                    /\ IF analysis_type[s] = "Custom Query" /\ ~Truthy(q)
                       THEN /\ Show(s, <<El("header", <<analysis_type[s]>>),
                                         El("warning", <<"Please enter a query">>)>>)
                            /\ Goto(s, "debug")
                       ELSE /\ Show(s, <<El("header", <<analysis_type[s]>>)>>)
                            /\ Goto(s, "an_first")
       ELSE /\ Show(s, <<El("info", <<"Please upload a legal document">>)>>)
            /\ Goto(s, "debug")
            /\ UNCHANGED <<user_query, trace>>
    /\ UNCHANGED <<session_vars, server_vars, collection_names, uploaded_file,
                   analysis_type, response, temp_dir>>

\* One call of st.session_state.legal_team.run and the rendering of its
\* result in a tab; an exception ends the try block, lines 343-414.  The
\* Analysis tab's heading follows the call, the other two precede theirs.
\* `prompt` is what the call is given, `next` where the script goes on.
TeamRun(s, tab, name, prompt, next) ==
    \E ok \in BOOLEAN :
        /\ Did(s, <<<<"main", "run", name>> \o prompt>>
                  \o (IF ok THEN <<>> ELSE <<<<"main", "raise", name>>>>))
        /\ IF ok
           THEN \E r \in Responses :
                /\ Show(s, <<Header(tab)>> \o Render(tab, r))
                /\ response' = [response EXCEPT ![s] =
                                    IF tab = "Analysis" THEN r.content ELSE @]
                /\ Goto(s, next)
           ELSE /\ screen' = [screen EXCEPT ![s] =
                        ScreenAfterError(IF tab = "Analysis" THEN @
                                         ELSE Append(@, Header(tab)), AnalysisError)]
                /\ UNCHANGED response
                /\ Goto(s, "debug")
        /\ UNCHANGED <<session_vars, server_vars, collection_names, uploaded_file,
                       analysis_type, user_query, temp_dir>>

\* main, lines 343-379: the analysis query and the Analysis tab.
AnFirst(s) ==
    /\ pc[s] = "an_first"
    /\ TeamRun(s, "Analysis", "analysis",
               IF analysis_type[s] = "Custom Query" THEN user_query[s]
               ELSE <<analysis_type[s]>>, "an_keypoints")

\* main, lines 381-395: the key points, asked of the first response's content.
AnKeyPoints(s) ==
    /\ pc[s] = "an_keypoints"
    /\ TeamRun(s, "Key Points", "key points", response[s], "an_recs")

\* main, lines 397-411: the recommendations, asked of the first response's content.
AnRecs(s) ==
    /\ pc[s] = "an_recs"
    /\ TeamRun(s, "Recommendations", "recommendations", response[s], "debug")

\* ------------------------------------------------------- debug and clear
\* main, line 424: the part of the key the debug section prints.
DebugKey(key) == Slice(key, PrefixLen)

\* main, lines 418-426: with the box ticked and no key stored,
\* None[:8] raises and the run ends there.
Debug(s) ==
    /\ pc[s] = "debug"
    /\ \E show \in BOOLEAN :
        IF ~show THEN Goto(s, "clear") /\ UNCHANGED screen
        ELSE IF qdrant_api_key[s] = None
        THEN /\ Show(s, <<El("exception", <<"TypeError">>)>>)
             /\ Goto(s, "idle")
        ELSE /\ Show(s, <<El("code URL", qdrant_url[s]),
                          El("code API Key", DebugKey(qdrant_api_key[s])),
                          El("code Vector DB Status",
                             <<IF Truthy(vector_db[s]) THEN "Initialized"
                               ELSE "Not Initialized">>)>>)
             /\ Goto(s, "clear")
    /\ UNCHANGED <<session_vars, server_vars, local_vars, trace>>

\* (mutant) Clear Credentials drops the team and the knowledge base too
ClearEverything(s) ==
    /\ pc[s] = "clear"
    /\ \E click \in (IF Clicked(s, "Analyze") THEN {FALSE} ELSE BOOLEAN) :
        IF click
        THEN /\ qdrant_api_key' = [qdrant_api_key EXCEPT ![s] = None]
             /\ qdrant_url' = [qdrant_url EXCEPT ![s] = None]
             /\ vector_db' = [vector_db EXCEPT ![s] = None]
             /\ openai_api_key' = [openai_api_key EXCEPT ![s] = None]
             /\ legal_team' = [legal_team EXCEPT ![s] = None]
             /\ knowledge_base' = [knowledge_base EXCEPT ![s] = None]
             /\ Did(s, <<<<"main", "click", "Clear Credentials">>>>)
        ELSE UNCHANGED <<session_vars, trace>>
    /\ Goto(s, "idle")
    /\ UNCHANGED <<server_vars, local_vars, screen>>

\* main, lines 428-433: Clear Credentials, then the rerun.
Clear(s) ==
    /\ pc[s] = "clear"
    /\ \E click \in (IF Clicked(s, "Analyze") THEN {FALSE} ELSE BOOLEAN) :
        IF click
        THEN /\ qdrant_api_key' = [qdrant_api_key EXCEPT ![s] = None]
             /\ qdrant_url' = [qdrant_url EXCEPT ![s] = None]
             /\ vector_db' = [vector_db EXCEPT ![s] = None]
             /\ openai_api_key' = [openai_api_key EXCEPT ![s] = None]
             /\ Did(s, <<<<"main", "click", "Clear Credentials">>>>)
        ELSE UNCHANGED <<qdrant_api_key, qdrant_url, vector_db, openai_api_key, trace>>
    /\ Goto(s, "idle")
    /\ UNCHANGED <<legal_team, knowledge_base, server_vars, local_vars, screen>>

\* ------------------------------------------------------- specifications
\* One user's session against the shared server.
User == "s1"

Next ==
    \/ Sidebar(User) \/ QdrantGate(User)
    \/ IQDirect(User) \/ IQList(User) \/ IQCreate(User)
    \/ UploadGate(User) \/ PDTest(User) \/ PDStage(User) \/ PDLoad(User)
    \/ Agents(User) \/ MainArea(User)
    \/ AnFirst(User) \/ AnKeyPoints(User) \/ AnRecs(User)
    \/ Debug(User) \/ Clear(User)

Spec == Init /\ [][Next]_vars

\* Two sessions that enter credentials and connect at the same time; no
\* document is uploaded.
ConnectOnly(s) ==
    \/ SidebarWith(s, OpenAIKeys, {SubSeq(Alphabet, 1, MaxKeyLen)}, {DEFAULT_URL})
    \/ QdrantGate(s)
    \/ IQDirect(s) \/ IQList(s) \/ IQCreate(s)
    \/ UploadGateWith(s, {})
    \/ MainArea(s) \/ Debug(s) \/ Clear(s)

NextRace == \E s \in Sessions : ConnectOnly(s)

SpecRace == Init /\ [][NextRace]_vars

\* ----------------------------------------------------------- properties
Has(s, ev) == \E i \in DOMAIN trace[s] : trace[s][i] = ev
Count(s, ev) == Cardinality({i \in DOMAIN trace[s] : trace[s][i] = ev})
Shown(s, el) == \E i \in DOMAIN screen[s] : screen[s][i] = el
IsPrefix(a, b) == Len(a) <= Len(b) /\ SubSeq(b, 1, Len(a)) = a
\* the first call of legal_team.run with this name was issued in the run
RunIssued(s, name) ==
    \E i \in DOMAIN trace[s] : Len(trace[s][i]) >= 3 /\ SubSeq(trace[s][i], 1, 3) = <<"main", "run", name>>

\* C1: in a run where process_document raised, no agent is constructed,
\* neither legal_team nor knowledge_base is assigned (both keep the values
\* they had), and the error is shown.
C1_FailedIngestionBuildsNoTeam ==
    [][\A s \in Sessions :
          Has(s, PD("raise"))' =>
              /\ ~Has(s, MAIN("Agent"))'
              /\ ~Has(s, MAIN("set legal_team"))'
              /\ ~Has(s, MAIN("set knowledge_base"))'
              /\ legal_team'[s] = legal_team[s]
              /\ knowledge_base'[s] = knowledge_base[s]
              /\ Shown(s, IngestError[1])']_vars

C1_Witness ==
    /\ Has(User, PD("raise")) /\ Has(User, PD("mkdtemp"))
    /\ pc[User] = "idle"
    /\ legal_team[User] = None

\* C2: legal_team becomes set only in the step that ends a successful
\* ingestion and the construction of all four agents, and once set it is
\* never reset by any later step, a failed analysis included.
C2_TeamLifecycle ==
    [][\A s \in Sessions :
          /\ legal_team[s] # None => legal_team'[s] # None
          /\ (legal_team[s] = None /\ legal_team'[s] # None) =>
                /\ pc[s] = "agents"
                /\ Has(s, PD("return"))
                /\ ~Has(s, PD("raise"))
                /\ Count(s, MAIN("Agent"))' = NumAgents]_vars

C2_Witness ==
    /\ legal_team[User] # None
    /\ Has(User, <<"main", "raise", "analysis">>)
    /\ Has(User, <<"main", "click", "Analyze">>)
    /\ pc[User] = "idle"

\* C3: when the key-points call or the recommendations call raises, the
\* error is displayed and everything the run had rendered stays displayed,
\* in place, through the rest of the run.
C3_ErrorKeepsResults ==
    [][\A s \in Sessions :
          /\ pc[s] \in {"an_keypoints", "an_recs", "debug", "clear"} =>
                IsPrefix(screen[s], screen'[s])
          /\ (pc[s] \in {"an_keypoints", "an_recs"}
              /\ (Has(s, <<"main", "raise", "key points">>)'
                  \/ Has(s, <<"main", "raise", "recommendations">>)')) =>
                Shown(s, AnalysisError)']_vars

C3_Witness ==
    /\ Has(User, <<"main", "raise", "recommendations">>)
    /\ pc[User] = "idle"
    /\ \E i, j, k \in DOMAIN screen[User] :
        /\ i < j /\ j < k
        /\ screen[User][i] = El("markdown", <<"Analysis", "content">>)
        /\ screen[User][j] = El("markdown", <<"Key Points", "message", 2>>)
        /\ screen[User][k] = AnalysisError

\* C4 (as claimed): a derived call that fails does not prevent the other
\* derived call: once the key-points call was issued, the recommendations
\* call has been issued by the time the analysis block is left.
C4_DerivedCallsIndependent ==
    \A s \in Sessions :
        (pc[s] \in {"debug", "clear", "idle"} /\ RunIssued(s, "key points")) =>
            RunIssued(s, "recommendations")

\* C5: a stored OpenAI key, Qdrant key or Qdrant URL becomes None only in
\* the Clear Credentials step, and that step leaves the three of them and
\* the vector-DB handle None.
ClearStep(s) == pc[s] = "clear" /\ Clicked(s, "Clear Credentials")'

C6_KeyNeverShownInFull ==
    \A s \in Sessions :
        pc[s] = "clear" =>
            \A i \in DOMAIN screen[s] :
                screen[s][i].kind = "code API Key" =>
                    /\ Len(screen[s][i].text) < Len(qdrant_api_key[s])
                    /\ screen[s][i].text # qdrant_api_key[s]

\* C7: when init_qdrant's listing holds legal_knowledge, it issues no
\* create_collection, does not raise (the handle is stored), and the
\* server's collections and their contents are unchanged.
C7_EnsureCollectionIdempotent ==
    [][\A s \in Sessions :
          (pc[s] = "iq_create" /\ pc'[s] # "iq_create"
           /\ COLLECTION \in collection_names[s]) =>
              /\ trace'[s] = trace[s]
              /\ collections' = collections /\ points' = points
              /\ vector_db'[s] = <<"Qdrant">>
              /\ ~Shown(s, IQErrors[1])']_vars

C7_Witness ==
    \E s \in Sessions :
        /\ pc[s] = "upload_gate"
        /\ COLLECTION \in collection_names[s]
        /\ vector_db[s] = <<"Qdrant">>
        /\ points # {}

\* C8 (as claimed): a create answered "already exists" is tolerated: the
\* initialization still yields a vector-DB handle.
C8_AlreadyExistsTolerated ==
    \A s \in Sessions :
        (Has(s, IQ("already exists")) /\ pc[s] = "upload_gate") =>
            vector_db[s] = <<"Qdrant">>

\* C9: outside the with block of process_document its temporary directory
\* and the staged upload do not exist, however the block was left.
C9_TempDirCleanedUp ==
    \A s \in Sessions : pc[s] # "pd_load" => temp_dir[s] = {}

C9_Witness ==
    /\ Has(User, PD("mkdtemp")) /\ Has(User, PD("embed")) /\ Has(User, PD("raise"))
    /\ pc[User] = "main_area"
    /\ temp_dir[User] = {}

\* C10 (as claimed): when the upload is rejected as no valid PDF,
\* process_document has made no call to the vector database or the
\* embedding service before the rejection.
C10_RejectedBeforeNetworkCall ==
    \A s \in Sessions :
        \A i, j \in DOMAIN trace[s] :
            (trace[s][j] = PD("rejected") /\ i < j) =>
                trace[s][i] \notin {PD("get_collections"), PD("embed"), PD("upsert")}


\* C11 (as claimed): a result tab shows the response's content, or else
\* exactly one message, the last assistant message, and no other: no tab
\* holds two rendered messages.
MessagesShown(s, tab) ==
    {i \in DOMAIN screen[s] :
        /\ screen[s][i].kind = "markdown"
        /\ Len(screen[s][i].text) = 3
        /\ SubSeq(screen[s][i].text, 1, 2) = <<tab, "message">>}

C11_OnlyLastAssistantMessage ==
    \A s \in Sessions :
        \A tab \in {"Analysis", "Key Points", "Recommendations"} :
            Cardinality(MessagesShown(s, tab)) <= 1

\* C12: legal_team.run is about to be invoked, or was invoked in this run,
\* only with the OpenAI key, the vector-DB handle, an uploaded file and the
\* team set, and for a Custom Query only with a non-empty query; the
\* empty-query warning comes with no call.
C12_AnalysisGated ==
    \A s \in Sessions :
        /\ (pc[s] \in {"an_first", "an_keypoints", "an_recs"}
            \/ RunIssued(s, "analysis")) =>
              /\ Truthy(openai_api_key[s]) /\ Truthy(vector_db[s])
              /\ Truthy(uploaded_file[s]) /\ Truthy(legal_team[s])
              /\ analysis_type[s] = "Custom Query" => Truthy(user_query[s])
        /\ Shown(s, El("warning", <<"Please enter a query">>)) =>
              /\ ~RunIssued(s, "analysis")
              /\ pc[s] \notin {"an_first", "an_keypoints", "an_recs"}

C12_Witness ==
    /\ RunIssued(User, "analysis") /\ RunIssued(User, "recommendations")
    /\ analysis_type[User] = "Custom Query"
    /\ user_query[User] = <<"q">>
    /\ Has(User, PD("raise"))

\* C13: the Clear Credentials step leaves legal_team and knowledge_base
\* (and everything but the four credential fields) as they were.
C13_ClearKeepsTeam ==
    [][\A s \in Sessions :
          ClearStep(s) =>
              /\ legal_team'[s] = legal_team[s]
              /\ knowledge_base'[s] = knowledge_base[s]
              /\ collections' = collections /\ points' = points
              /\ screen'[s] = screen[s]]_vars

C13_Witness ==
    /\ Clicked(User, "Clear Credentials")
    /\ pc[User] = "idle"
    /\ legal_team[User] = <<"team", "contract.pdf">>
    /\ knowledge_base[User] = <<"kb", "contract.pdf">>
    /\ vector_db[User] = None

====
